---- MODULE Spec2Model ----
(***************************************************************************)
(* Model of models/sentiment_model.py: the SentimentAnalyzer wrapper that  *)
(* turns the binary HAPPY/SAD classifier output into three classes, with   *)
(* its single and batch prediction entry points and its lazily built       *)
(* pipeline handle.                                                        *)
(*                                                                         *)
(* Probabilities and thresholds are integers in hundredths (65 is 0.65);   *)
(* the code only compares them and takes their maximum, which is exact on  *)
(* this scale.  Strings (texts, labels) are sequences of one-character     *)
(* strings, so that upper(), strip() and the substring test are computed.  *)
(***************************************************************************)
EXTENDS Integers, Sequences, FiniteSets, TLC

VARIABLES
  positive_threshold,  \* self.positive_threshold
  negative_threshold,  \* self.negative_threshold
  _pipeline,           \* self._pipeline: None, or the identity of the built handle
  builds,              \* number of TextClassificationPipeline objects constructed
  last,                \* the last finished predict/batch_predict call and its outcome
  scores,              \* argument of _derive_three_class
  derived,             \* what _derive_three_class returned for scores
  pc,                  \* per thread: position inside predict/batch_predict
  handle,              \* per thread: the handle the pipeline property gave it
  todo                 \* per thread: classifier invocations still to make

vars == <<positive_threshold, negative_threshold, _pipeline, builds, last,
          scores, derived, pc, handle, todo>>

----------------------------------------------------------------------------
(* Bounds *)

PSteps == 2       \* the probability grid has PSteps + 1 evenly spaced points
MaxScores == 3    \* longest classifier output (entries per text)
MaxTexts == 3     \* longest list handed to batch_predict
MaxBatch == 3     \* largest batch_size
NThreads == 2     \* threads sharing one analyzer
MaxBuildTime == 2 \* longest build of the pipeline, in ticks
MaxCallTime == 2  \* longest classifier invocation, in ticks

----------------------------------------------------------------------------
(* Values *)

\* None, as the value of self._pipeline.  A built handle is
\* [id |-> n, clf |-> f]: the n-th pipeline object constructed, whose loaded
\* model answers text t with the ClassifierOutput f[t].
None == [id |-> 0]

\* _derive_three_class has not been applied yet.
NotCalled == [called |-> FALSE]

\* The three Persian labels the code returns ("مثبت", "منفی", "خنثی").
POSITIVE == "mosbat"
NEGATIVE == "manfi"
NEUTRAL == "khonsa"

\* __init__'s defaults, 0.65 each.
DefaultPositiveThreshold == 65
DefaultNegativeThreshold == 65

Max2(a, b) == IF b > a THEN b ELSE a

\* Probabilities: an even grid over [0, 1] plus the default threshold and its
\* complement.
Probs == {(100 * k) \div PSteps : k \in 0..PSteps} \cup {DefaultPositiveThreshold, 100 - DefaultNegativeThreshold}

Thresholds == Probs

----------------------------------------------------------------------------
(* Strings *)

LowerToUpper ==
  [c \in {"a", "d", "e", "g", "h", "n", "o", "p", "s", "y"} |->
     CASE c = "a" -> "A" [] c = "d" -> "D" [] c = "e" -> "E" [] c = "g" -> "G"
       [] c = "h" -> "H" [] c = "n" -> "N" [] c = "o" -> "O" [] c = "p" -> "P"
       [] c = "s" -> "S" [] c = "y" -> "Y"]

\* str.upper()
Upper(s) == [i \in 1..Len(s) |-> IF s[i] \in DOMAIN LowerToUpper THEN LowerToUpper[s[i]] ELSE s[i]]

\* sub in s
Contains(sub, s) ==
  \E i \in 0..(Len(s) - Len(sub)) : SubSeq(s, i + 1, i + Len(sub)) = sub

HAPPY == <<"H", "A", "P", "P", "Y">>
POS == <<"P", "O", "S">>
SAD == <<"S", "A", "D">>
NEG == <<"N", "E", "G">>

\* Raw labels a classifier may use.
Labels ==
  { HAPPY,
    <<"h", "a", "p", "p", "y">>,
    SAD,
    <<"n", "e", "g">>,
    <<"P", "o", "s">>,
    <<"S", "A", "D", "P", "O", "S">>,
    <<"L", "1">> }

----------------------------------------------------------------------------
(* _map_label_to_persian and _derive_three_class *)

MapLabelNegativeFirst(label) ==
  LET upper == Upper(label) IN
    IF Contains(SAD, upper) \/ Contains(NEG, upper) THEN NEGATIVE
    ELSE IF Contains(HAPPY, upper) \/ Contains(POS, upper) THEN POSITIVE
    ELSE NEUTRAL

_map_label_to_persian(label) ==
  LET upper == Upper(label) IN
    IF Contains(HAPPY, upper) \/ Contains(POS, upper) THEN POSITIVE
    ELSE IF Contains(SAD, upper) \/ Contains(NEG, upper) THEN NEGATIVE
    ELSE NEUTRAL

\* max(scores, key=lambda x: float(x["score"])): the first entry whose score
\* no other entry exceeds.
RECURSIVE MaxByScore(_)
MaxByScore(s) ==
  IF Len(s) = 1 THEN s[1]
  ELSE LET rest == MaxByScore(Tail(s)) IN
         IF rest.score > s[1].score THEN rest ELSE s[1]

Returned(label, score) == [label |-> label, score |-> score]
Raised(exc, msg) == [exc |-> exc, msg |-> msg]

\* Lines 89-92, the fallback for fewer than two entries: the top entry as it
\* is.  max() of an empty sequence raises ValueError.
Fallback(sc) ==
  IF Len(sc) = 0 THEN Raised("ValueError", "max_empty")
  ELSE LET best == MaxByScore(sc) IN
         Returned(_map_label_to_persian(best.label), best.score)

\* Lines 95-104: which of the first two entries is the positive class.
PosNegLastEntry(sc) ==
  LET s0 == sc[1]
      s1 == sc[Len(sc)]
      label0 == Upper(s0.label)
      p0 == s0.score
      p1 == s1.score
  IN IF Contains(HAPPY, label0) \/ Contains(POS, label0)
       THEN [pos_prob |-> p0, neg_prob |-> p1]
       ELSE [pos_prob |-> p1, neg_prob |-> p0]

PosNeg(sc) ==
  LET s0 == sc[1]
      s1 == sc[2]
      label0 == Upper(s0.label)
      p0 == s0.score
      p1 == s1.score
  IN IF Contains(HAPPY, label0) \/ Contains(POS, label0)
       THEN [pos_prob |-> p0, neg_prob |-> p1]
       ELSE [pos_prob |-> p1, neg_prob |-> p0]

\* Lines 106-111: the three rules, in order.
DecideStrictPositive(pos_prob, neg_prob, pt, nt) ==
  IF pos_prob > pt /\ pos_prob >= neg_prob THEN Returned(POSITIVE, pos_prob)
  ELSE IF neg_prob >= nt /\ neg_prob > pos_prob THEN Returned(NEGATIVE, neg_prob)
  ELSE Returned(NEUTRAL, Max2(pos_prob, neg_prob))

DecideStrictNegative(pos_prob, neg_prob, pt, nt) ==
  IF pos_prob >= pt /\ pos_prob >= neg_prob THEN Returned(POSITIVE, pos_prob)
  ELSE IF neg_prob > nt /\ neg_prob > pos_prob THEN Returned(NEGATIVE, neg_prob)
  ELSE Returned(NEUTRAL, Max2(pos_prob, neg_prob))

DecideNeutralPos(pos_prob, neg_prob, pt, nt) ==
  IF pos_prob >= pt /\ pos_prob >= neg_prob THEN Returned(POSITIVE, pos_prob)
  ELSE IF neg_prob >= nt /\ neg_prob > pos_prob THEN Returned(NEGATIVE, neg_prob)
  ELSE Returned(NEUTRAL, pos_prob)

Decide(pos_prob, neg_prob, pt, nt) ==
  IF pos_prob >= pt /\ pos_prob >= neg_prob THEN Returned(POSITIVE, pos_prob)
  ELSE IF neg_prob >= nt /\ neg_prob > pos_prob THEN Returned(NEGATIVE, neg_prob)
  ELSE Returned(NEUTRAL, Max2(pos_prob, neg_prob))

\* The result of _derive_three_class(scores) for thresholds pt, nt.
_derive_three_class(sc, pt, nt) ==
  IF Len(sc) < 2 THEN Fallback(sc)
  ELSE LET pn == PosNeg(sc) IN Decide(pn.pos_prob, pn.neg_prob, pt, nt)

----------------------------------------------------------------------------
(* Inputs of the decision rule *)

Entries == [label : Labels, score : Probs]

\* Entries past the second one, which the two-class rule never reads.
ExtraEntries == { [label |-> HAPPY, score |-> 100], [label |-> <<"L", "1">>, score |-> 0] }

RECURSIVE SeqsUpTo(_, _)
SeqsUpTo(S, n) ==
  IF n <= 0 THEN { <<>> }
  ELSE LET shorter == SeqsUpTo(S, n - 1) IN
         shorter \cup { Append(q, x) : q \in shorter, x \in S }

ScoreLists ==
  { <<>> } \cup { <<e>> : e \in Entries }
    \cup { <<e0, e1>> \o x : e0 \in Entries, e1 \in Entries,
                             x \in SeqsUpTo(ExtraEntries, MaxScores - 2) }

NoCall == [op |-> "none"]
Threads == 1..NThreads

\* SentimentAnalyzer.__init__: thresholds stored, no pipeline yet.
Construct(pt, nt) ==
  /\ positive_threshold = pt
  /\ negative_threshold = nt
  /\ _pipeline = None
  /\ builds = 0

Idle ==
  /\ last = NoCall
  /\ pc = [t \in Threads |-> "idle"]
  /\ handle = [t \in Threads |-> None]
  /\ todo = [t \in Threads |-> 0]

----------------------------------------------------------------------------
(* Texts and the classifier *)

Whitespace == {" ", "\t"}

\* str.strip(): leading and trailing whitespace removed.
RECURSIVE LStrip(_)
LStrip(s) == IF Len(s) > 0 /\ s[1] \in Whitespace THEN LStrip(Tail(s)) ELSE s

RECURSIVE RStrip(_)
RStrip(s) ==
  IF Len(s) > 0 /\ s[Len(s)] \in Whitespace THEN RStrip(SubSeq(s, 1, Len(s) - 1)) ELSE s

Strip(s) == RStrip(LStrip(s))

\* A string is true when it is not empty.
Truthy(s) == Len(s) > 0

\* not text or not text.strip()
IsBlankNoStrip(text) == ~Truthy(text)

IsBlank(text) == ~Truthy(text) \/ ~Truthy(Strip(text))

BlankTexts == { <<>>, <<" ", "\t">> }
ValidTexts == { <<"a">>, <<" ", "b", " ">> }
Texts == BlankTexts \cup ValidTexts

\* What the classifier may answer for one text.
PortOutputs ==
  { << [label |-> HAPPY, score |-> 100], [label |-> SAD, score |-> 0] >>,
    << [label |-> SAD, score |-> 65], [label |-> HAPPY, score |-> 35] >>,
    << [label |-> HAPPY, score |-> 50], [label |-> SAD, score |-> 50] >> }

\* The models from_pretrained may load: one ClassifierOutput per text.
Classifiers == [ValidTexts -> PortOutputs]

\* What a model answers for a text with no content.
BlankOutput == << [label |-> HAPPY, score |-> 50], [label |-> SAD, score |-> 50] >>

\* What the pipeline object h returns for one text.
Answer(h, text) == IF text \in DOMAIN h.clf THEN h.clf[text] ELSE BlankOutput

\* Thresholds the analyzer of the call sequences is constructed with.
CtorThresholds == {DefaultPositiveThreshold, 50}

\* batch_size arguments: negative, zero and positive.
BatchSizes == (0 - 1)..MaxBatch

----------------------------------------------------------------------------
(* The pipeline property, predict and batch_predict *)

NoExc == [exc |-> "none"]
ValueErrorEmptyText == Raised("ValueError", "empty_text")
ValueErrorNoValidTexts == Raised("ValueError", "no_valid_texts")
ValueErrorRangeStep == Raised("ValueError", "range_arg_3_zero")
BuildFailure == Raised("ClassifierFailure", "from_pretrained")
CallFailure == Raised("ClassifierFailure", "pipeline_call")

\* The pipeline property read with self._pipeline = cur after n
\* constructions; from_pretrained loads clf, or fails when ~buildOk.
PipelineNoCache(cur, n, buildOk, clf) ==
  IF buildOk
    THEN [exc |-> NoExc, _pipeline |-> [id |-> n + 1, clf |-> clf], builds |-> n + 1, built |-> TRUE]
    ELSE [exc |-> BuildFailure, _pipeline |-> cur, builds |-> n, built |-> FALSE]

PipelineProperty(cur, n, buildOk, clf) ==
  IF cur = None THEN
    IF buildOk
      THEN [exc |-> NoExc, _pipeline |-> [id |-> n + 1, clf |-> clf], builds |-> n + 1, built |-> TRUE]
      ELSE [exc |-> BuildFailure, _pipeline |-> cur, builds |-> n, built |-> FALSE]
  ELSE [exc |-> NoExc, _pipeline |-> cur, builds |-> n, built |-> FALSE]

\* The classifier call on batch raises: the exception leaves the method, the
\* results gathered so far (acc) are dropped, and self is as the pipeline
\* property g left it.
FailedCallResetsHandle(acc, g, batch) ==
  [exc |-> CallFailure, results |-> <<>>, log |-> Append(acc.log, batch),
   _pipeline |-> None, builds |-> g.builds, built |-> acc.built \/ g.built]

FailedCall(acc, g, batch) ==
  [exc |-> CallFailure, results |-> <<>>, log |-> Append(acc.log, batch),
   _pipeline |-> g._pipeline, builds |-> g.builds, built |-> acc.built \/ g.built]

\* time.perf_counter() is modelled in ticks of one millisecond.
TicksPerSecond == 1000

\* (time.perf_counter() - start) * 1000.0
ElapsedMs(start, now) == ((now - start) * 1000) \div TicksPerSecond

RECURSIVE Gcd(_, _)
Gcd(a, b) == IF b = 0 THEN a ELSE Gcd(b, a % b)

\* The float a / b, as the fraction in lowest terms (a >= 0, b > 0).
Ratio(a, b) ==
  LET g == Gcd(a, b) IN [num |-> a \div g, den |-> b \div g]

\* SentimentResult(label=label, score=score, latency_ms=latency_ms)
SentimentResult(label, score, latency_ms) ==
  [label |-> label, score |-> score, latency_ms |-> latency_ms]

\* The outcome of predict(text): what it raised or returned (as a list of
\* one result), the inputs it handed to the classifier, and the fields of
\* self afterwards.  tm gives what each step takes on the clock: the input
\* check, a build, the classifier call, the decision rule.
PredictBody(text, cur, n, pt, nt, buildOk, clf, callOk, tm) ==
  LET call == [op |-> "predict", texts |-> <<text>>, batch_size |-> 1, times |-> tm] IN
  IF IsBlank(text) THEN
    [call |-> call, exc |-> ValueErrorEmptyText, results |-> <<>>, log |-> <<>>,
     _pipeline |-> cur, builds |-> n, built |-> FALSE]
  ELSE
    LET start == tm.validate
        g == PipelineProperty(cur, n, buildOk, clf)
        called == start + (IF g.built THEN tm.build ELSE 0)
    IN
    IF g.exc # NoExc THEN
      [call |-> call, exc |-> g.exc, results |-> <<>>, log |-> <<>>,
       _pipeline |-> g._pipeline, builds |-> g.builds, built |-> g.built]
    ELSE IF ~callOk THEN
      [call |-> call] @@ FailedCall([log |-> <<>>, built |-> FALSE], g, <<text>>)
    ELSE
      LET outputs == Answer(g._pipeline, text)
          latency_ms == ElapsedMs(start, called + tm.calls[1])
          d == _derive_three_class(outputs, pt, nt)
      IN [call |-> call,
          exc |-> IF "exc" \in DOMAIN d THEN d ELSE NoExc,
          results |-> IF "exc" \in DOMAIN d THEN <<>>
                      ELSE << SentimentResult(d.label, d.score, Ratio(latency_ms, 1)) >>,
          log |-> << <<text>> >>,
          _pipeline |-> g._pipeline, builds |-> g.builds, built |-> g.built]

\* [t for t in texts if t and t.strip()]
CleanTextsTruthyOnly(texts) == SelectSeq(texts, LAMBDA t : Truthy(t))

CleanTexts(texts) == SelectSeq(texts, LAMBDA t : Truthy(t) /\ Truthy(Strip(t)))

\* range(start, stop, step) for step # 0
RECURSIVE PyRange(_, _, _)
PyRange(start, stop, step) ==
  IF (step > 0 /\ start < stop) \/ (step < 0 /\ start > stop)
    THEN <<start>> \o PyRange(start + step, stop, step)
    ELSE <<>>

\* s[i : j] for 0 <= i
SliceDropsLast(s, i, j) == SubSeq(s, i + 1, IF j - 1 < Len(s) THEN j - 1 ELSE Len(s))

Slice(s, i, j) == SubSeq(s, i + 1, IF j < Len(s) THEN j ELSE Len(s))

\* results.append(...) for every output of one chunk, in order
ExtendFront(results, new) == new \o results

Extend(results, new) == results \o new

\* The loop of batch_predict over the chunk starts still to do; k counts the
\* classifier invocations of this call, and the failAt-th one fails.
\* acc.now is the clock.
RECURSIVE BatchLoop(_, _, _, _, _, _)
BatchLoop(env, starts, cur, n, k, acc) ==
  IF starts = <<>> THEN
    [exc |-> NoExc, results |-> acc.results, log |-> acc.log,
     _pipeline |-> cur, builds |-> n, built |-> acc.built]
  ELSE
    LET i == Head(starts)
        batch == Slice(env.clean, i, i + env.batch_size)
        start == acc.now
        g == PipelineProperty(cur, n, env.buildOk, env.clf)
        called == start + (IF g.built THEN env.tm.build ELSE 0)
    IN
    IF g.exc # NoExc THEN
      [exc |-> g.exc, results |-> <<>>, log |-> acc.log,
       _pipeline |-> g._pipeline, builds |-> g.builds, built |-> acc.built]
    ELSE IF env.failAt = k THEN FailedCall(acc, g, batch)
    ELSE
      LET outputs == [j \in 1..Len(batch) |-> Answer(g._pipeline, batch[j])]
          batch_latency_ms == ElapsedMs(start, called + env.tm.calls[k])
          per_item_latency == Ratio(batch_latency_ms, Max2(Len(outputs), 1))
          d == [j \in 1..Len(outputs) |-> _derive_three_class(outputs[j], env.pt, env.nt)]
          bad == { j \in 1..Len(d) : "exc" \in DOMAIN d[j] }
      IN
      IF bad # {} THEN
        [exc |-> d[CHOOSE j \in bad : \A j2 \in bad : j <= j2], results |-> <<>>,
         log |-> Append(acc.log, batch),
         _pipeline |-> g._pipeline, builds |-> g.builds, built |-> acc.built \/ g.built]
      ELSE
        BatchLoop(env, Tail(starts), g._pipeline, g.builds, k + 1,
                  [results |-> Extend(acc.results,
                                      [j \in 1..Len(d) |->
                                         SentimentResult(d[j].label, d[j].score, per_item_latency)]),
                   log |-> Append(acc.log, batch),
                   built |-> acc.built \/ g.built,
                   now |-> called + env.tm.calls[k] + Len(outputs) * env.tm.derive])

\* The outcome of batch_predict(texts, batch_size=batch_size).
BatchPredictBody(texts, batch_size, cur, n, pt, nt, buildOk, clf, failAt, tm) ==
  LET call == [op |-> "batch_predict", texts |-> texts, batch_size |-> batch_size, times |-> tm]
      clean_texts == CleanTexts(texts)
      unchanged == [results |-> <<>>, log |-> <<>>, _pipeline |-> cur, builds |-> n, built |-> FALSE]
  IN
  IF clean_texts = <<>> THEN [call |-> call, exc |-> ValueErrorNoValidTexts] @@ unchanged
  ELSE IF batch_size = 0 THEN [call |-> call, exc |-> ValueErrorRangeStep] @@ unchanged
  ELSE
    [call |-> call] @@
    BatchLoop([clean |-> clean_texts, batch_size |-> batch_size, pt |-> pt, nt |-> nt,
               buildOk |-> buildOk, clf |-> clf, failAt |-> failAt, tm |-> tm],
              PyRange(0, Len(clean_texts), batch_size), cur, n, 1,
              [results |-> <<>>, log |-> <<>>, built |-> FALSE, now |-> tm.validate])

\* The record of a finished call kept in last.
Finished(r) ==
  [op |-> r.call.op, texts |-> r.call.texts, batch_size |-> r.call.batch_size,
   times |-> r.call.times, exc |-> r.exc, results |-> r.results, log |-> r.log, built |-> r.built]

TextLists == SeqsUpTo(Texts, MaxTexts)

Init ==
  /\ \E pt \in CtorThresholds, nt \in CtorThresholds : Construct(pt, nt)
  /\ Idle
  /\ scores = <<>>
  /\ derived = NotCalled

Commit(r) ==
  /\ _pipeline' = r._pipeline
  /\ builds' = r.builds
  /\ last' = Finished(r)
  /\ UNCHANGED <<positive_threshold, negative_threshold, scores, derived, pc, handle, todo>>

\* What a build in the coming call can do: nothing is loaded once the handle
\* is cached.
BuildOutcomes == IF _pipeline = None THEN BOOLEAN ELSE {TRUE}
Loadable == IF _pipeline = None THEN Classifiers ELSE {_pipeline.clf}

\* What the steps of a call with n classifier invocations take on the clock:
\* the input check and each application of the decision rule one tick, a
\* build (if the call makes one) a time in B, each invocation a time in C.
Timings(n, B, C) ==
  [validate : {1}, build : IF _pipeline = None THEN B ELSE {0},
   calls : [1..n -> C], derive : {1}]

\* The classifier invocations of batch_predict(texts, batch_size=batch_size).
NumCalls(texts, batch_size) ==
  IF batch_size = 0 THEN 0 ELSE Len(PyRange(0, Len(CleanTexts(texts)), batch_size))

\* analyzer.predict(text), for a text of TS and step times of B and C
PredictOver(TS, B, C) ==
  /\ last = NoCall
  /\ \E text \in TS, buildOk \in BuildOutcomes, clf \in Loadable, callOk \in BOOLEAN,
        tm \in Timings(1, B, C) :
       Commit(PredictBody(text, _pipeline, builds, positive_threshold, negative_threshold,
                          buildOk, clf, callOk, tm))

\* analyzer.batch_predict(texts, batch_size=batch_size)
BatchPredictOver(TL, B, C) ==
  /\ last = NoCall
  /\ \E texts \in TL, batch_size \in BatchSizes, buildOk \in BuildOutcomes,
        clf \in Loadable :
      \E failAt \in 0..Len(CleanTexts(texts)), tm \in Timings(NumCalls(texts, batch_size), B, C) :
       Commit(BatchPredictBody(texts, batch_size, _pipeline, builds, positive_threshold,
                               negative_threshold, buildOk, clf, failAt, tm))

\* Calls with every kind of text, each step taking one tick.
Predict == PredictOver(Texts, {1}, {1})

BatchPredict == BatchPredictOver(TextLists, {1}, {1})

\* The caller takes the result or the exception; the analyzer is ready for
\* the next call.
Return ==
  /\ last # NoCall
  /\ last' = NoCall
  /\ UNCHANGED <<positive_threshold, negative_threshold, _pipeline, builds,
                 scores, derived, pc, handle, todo>>

Next == Predict \/ BatchPredict \/ Return

Spec == Init /\ [][Next]_vars

----------------------------------------------------------------------------
(* The same calls with builds and classifier invocations of varying length *)

BuildTimes == 1..MaxBuildTime
CallTimes == 1..MaxCallTime

PredictTimed == PredictOver(Texts, BuildTimes, CallTimes)

BatchPredictTimed == BatchPredictOver(TextLists, BuildTimes, CallTimes)

NextTimed == PredictTimed \/ BatchPredictTimed \/ Return

SpecTimed == Init /\ [][NextTimed]_vars

----------------------------------------------------------------------------
(* Several threads calling predict/batch_predict on one analyzer.  Each    *)
(* thread goes through the pipeline property statement by statement.       *)

InitThreads ==
  /\ \E pt \in CtorThresholds, nt \in CtorThresholds : Construct(pt, nt)
  /\ Idle
  /\ scores = <<>>
  /\ derived = NotCalled

ThreadStep(t, newpc, newhandle, newtodo) ==
  /\ pc' = [pc EXCEPT ![t] = newpc]
  /\ handle' = [handle EXCEPT ![t] = newhandle]
  /\ todo' = [todo EXCEPT ![t] = newtodo]
  /\ UNCHANGED <<positive_threshold, negative_threshold, last, scores, derived>>

\* Thread t enters predict (one classifier call) or batch_predict (one call
\* per chunk) with valid input and reaches self.pipeline.
Enter(t) ==
  /\ pc[t] = "idle"
  /\ \E calls \in 1..MaxTexts : ThreadStep(t, "line59", None, calls)
  /\ UNCHANGED <<_pipeline, builds>>

\* Line 59: if self._pipeline is None
TestNone(t) ==
  /\ pc[t] = "line59"
  /\ ThreadStep(t, IF _pipeline = None THEN "line60" ELSE "line68", handle[t], todo[t])
  /\ UNCHANGED <<_pipeline, builds>>

\* Lines 60-67: load tokenizer and model, construct the pipeline, assign it.
\* Every load of one model_name gives the same model.
BuildAndAssign(t) ==
  /\ pc[t] = "line60"
  /\ \E clf \in (IF _pipeline = None THEN Classifiers ELSE {_pipeline.clf}) :
       _pipeline' = [id |-> builds + 1, clf |-> clf]
  /\ builds' = builds + 1
  /\ ThreadStep(t, "line68", handle[t], todo[t])

\* Lines 60-61: from_pretrained raises; the exception ends the call.
BuildFails(t) ==
  /\ pc[t] = "line60"
  /\ ThreadStep(t, "idle", None, 0)
  /\ UNCHANGED <<_pipeline, builds>>

\* Line 68: return self._pipeline
ReturnPipeline(t) ==
  /\ pc[t] = "line68"
  /\ ThreadStep(t, "call", _pipeline, todo[t])
  /\ UNCHANGED <<_pipeline, builds>>

\* Lines 127-131, 163-167: the classifier call returns; the method goes on
\* to its next chunk or returns.
Invoke(t) ==
  /\ pc[t] = "call"
  /\ ThreadStep(t, IF todo[t] > 1 THEN "line59" ELSE "idle",
                IF todo[t] > 1 THEN handle[t] ELSE None, todo[t] - 1)
  /\ UNCHANGED <<_pipeline, builds>>

\* The classifier call raises; the exception ends the method.
InvokeFails(t) ==
  /\ pc[t] = "call"
  /\ ThreadStep(t, "idle", None, 0)
  /\ UNCHANGED <<_pipeline, builds>>

NextThreads ==
  \E t \in Threads :
    \/ Enter(t)
    \/ TestNone(t)
    \/ BuildAndAssign(t)
    \/ BuildFails(t)
    \/ ReturnPipeline(t)
    \/ Invoke(t)
    \/ InvokeFails(t)

SpecThreads == InitThreads /\ [][NextThreads]_vars

----------------------------------------------------------------------------
(* The decision rule alone: every input, every pair of thresholds *)

InitDerive ==
  /\ \E pt \in Thresholds, nt \in Thresholds : Construct(pt, nt)
  /\ Idle
  /\ scores \in ScoreLists
  /\ derived = NotCalled

Derive ==
  /\ derived = NotCalled
  /\ derived' = _derive_three_class(scores, positive_threshold, negative_threshold)
  /\ UNCHANGED <<positive_threshold, negative_threshold, _pipeline, builds, last,
                 scores, pc, handle, todo>>

NextDerive == Derive

SpecDerive == InitDerive /\ [][NextDerive]_vars

----------------------------------------------------------------------------
(* Properties of the decision rule *)

\* c and d are the same letter, whatever their case.
SameLetter(c, d) ==
  \/ c = d
  \/ c \in DOMAIN LowerToUpper /\ LowerToUpper[c] = d
  \/ d \in DOMAIN LowerToUpper /\ LowerToUpper[d] = c

\* kw occurs in label, case-insensitively.
MatchesKeyword(label, kw) ==
  \E i \in 1..(Len(label) - Len(kw) + 1) :
    \A j \in 1..Len(kw) : SameLetter(label[i + j - 1], kw[j])

PositiveLike(label) == MatchesKeyword(label, HAPPY) \/ MatchesKeyword(label, POS)
NegativeLike(label) == MatchesKeyword(label, SAD) \/ MatchesKeyword(label, NEG)

TwoEntryCall == derived # NotCalled /\ Len(scores) >= 2

\* posProb and negProb of the call, read off the input.
PosProb == IF PositiveLike(scores[1].label) THEN scores[1].score ELSE scores[2].score
NegProb == IF PositiveLike(scores[1].label) THEN scores[2].score ELSE scores[1].score

PositiveRule == PosProb >= positive_threshold /\ PosProb >= NegProb
NegativeRule == NegProb >= negative_threshold /\ NegProb > PosProb

\* C1: with at least two entries, a first entry whose label is positive-like
\* and whose probability is >= positive_threshold and >= the second entry's
\* gives POSITIVE with that probability as confidence (a tie at the threshold
\* included).
C1_PositiveRule ==
  (/\ TwoEntryCall
   /\ PositiveLike(scores[1].label)
   /\ scores[1].score >= positive_threshold
   /\ scores[1].score >= scores[2].score)
  => derived = Returned(POSITIVE, scores[1].score)

\* The tie at the threshold: posProb = negProb = both thresholds.
C1_Witness ==
  /\ TwoEntryCall
  /\ PositiveLike(scores[1].label)
  /\ scores[1].score = scores[2].score
  /\ scores[1].score = positive_threshold
  /\ scores[1].score = negative_threshold
  /\ positive_threshold = 50
  /\ derived = Returned(POSITIVE, 50)

\* C2: with at least two entries and the POSITIVE rule not firing, a negative
\* probability >= negative_threshold and > the positive one gives NEGATIVE
\* with the negative probability as confidence.
C2_NegativeRule ==
  (TwoEntryCall /\ ~PositiveRule /\ NegProb >= negative_threshold /\ NegProb > PosProb)
  => derived = Returned(NEGATIVE, NegProb)

\* NEGATIVE returned with the negative probability exactly at its threshold
\* while the positive probability clears the positive threshold but loses.
C2_Witness ==
  /\ TwoEntryCall
  /\ NegProb = negative_threshold
  /\ PosProb >= positive_threshold
  /\ PosProb < NegProb
  /\ derived = Returned(NEGATIVE, NegProb)

\* C3: with at least two entries, NEUTRAL with confidence max(posProb,
\* negProb) is returned when neither rule fires, and the three outcomes are
\* exhaustive and mutually exclusive: each is returned exactly when its rule
\* is the first to fire.
C3_NeutralResidual ==
  TwoEntryCall =>
    /\ (~PositiveRule /\ ~NegativeRule) => derived = Returned(NEUTRAL, Max2(PosProb, NegProb))
    /\ derived.label \in {POSITIVE, NEGATIVE, NEUTRAL}
    /\ derived.label = POSITIVE <=> PositiveRule
    /\ derived.label = NEGATIVE <=> (~PositiveRule /\ NegativeRule)
    /\ derived.label = NEUTRAL <=> (~PositiveRule /\ ~NegativeRule)

\* NEUTRAL although the negative probability is the larger one and the
\* positive one is not zero.
C3_Witness ==
  /\ TwoEntryCall
  /\ ~PositiveRule /\ ~NegativeRule
  /\ NegProb > PosProb /\ PosProb > 0
  /\ derived = Returned(NEUTRAL, NegProb)

\* C10: a single entry is returned as it is: its probability as confidence
\* and the keyword mapping of its label (HAPPY or POS, then SAD or NEG, else
\* NEUTRAL; case-insensitive substrings), whatever the thresholds.
C10_SingleEntryFallback ==
  (derived # NotCalled /\ Len(scores) = 1) =>
    derived = Returned(IF PositiveLike(scores[1].label) THEN POSITIVE
                       ELSE IF NegativeLike(scores[1].label) THEN NEGATIVE
                       ELSE NEUTRAL,
                       scores[1].score)

\* A lower-case "happy" below both thresholds still gives POSITIVE.
C10_Witness ==
  /\ derived # NotCalled
  /\ Len(scores) = 1
  /\ scores[1].label = <<"h", "a", "p", "p", "y">>
  /\ scores[1].score < positive_threshold
  /\ scores[1].score < negative_threshold
  /\ derived = Returned(POSITIVE, scores[1].score)

----------------------------------------------------------------------------
(* Properties of predict and batch_predict *)

\* Every character of t is whitespace (the empty text included).
AllWhitespace(t) == \A i \in 1..Len(t) : t[i] \in Whitespace

\* The texts of the last call that are not blank, in their order.
RECURSIVE NonBlank(_)
NonBlank(ts) ==
  IF ts = <<>> THEN <<>>
  ELSE IF AllWhitespace(Head(ts)) THEN NonBlank(Tail(ts))
  ELSE <<Head(ts)>> \o NonBlank(Tail(ts))

ClassifierFailures == {BuildFailure, CallFailure}

\* C4: predict on an empty or whitespace-only text raises the ValueError for
\* empty input; the classifier was not called and no handle was built by
\* that call.
C4_BlankPredictRejected ==
  (last.op = "predict" /\ AllWhitespace(last.texts[1]))
  => /\ last.exc = ValueErrorEmptyText
     /\ last.results = <<>>
     /\ last.log = <<>>
     /\ ~last.built

\* predict on a whitespace-only text, rejected on a fresh analyzer.
C4_Witness ==
  /\ last.op = "predict"
  /\ last.texts = << <<" ", "\t">> >>
  /\ last.exc = ValueErrorEmptyText
  /\ _pipeline = None

DecisionFor(text) ==
  LET d == _derive_three_class(Answer(_pipeline, text), positive_threshold, negative_threshold)
  IN Returned(d.label, d.score)

\* The (label, score) pair of a result.
LabelScore(r) == Returned(r.label, r.score)

\* C6: whatever the batch_size, the i-th result batch_predict returns is the
\* decision for the classifier's output on the i-th non-blank text.
C6_BatchOrder ==
  (last.op = "batch_predict" /\ last.exc = NoExc) =>
    \A i \in 1..Len(last.results) :
      /\ i <= Len(NonBlank(last.texts))
      /\ LabelScore(last.results[i]) = DecisionFor(NonBlank(last.texts)[i])

\* Three texts with a blank one between them, in two chunks, with different
\* decisions for the first and the last.
C6_Witness ==
  /\ last.op = "batch_predict"
  /\ last.exc = NoExc
  /\ last.batch_size = 2
  /\ Len(last.texts) = 3
  /\ Len(last.log) = 2
  /\ Len(last.results) = 3
  /\ LabelScore(last.results[1]) # LabelScore(last.results[3])
  /\ LabelScore(last.results[1]) = DecisionFor(last.texts[1])
  /\ LabelScore(last.results[3]) = DecisionFor(last.texts[3])

C9_Original ==
  [][(last'.op # "none" /\ last'.exc \in ClassifierFailures) =>
       /\ last'.results = <<>>
       /\ positive_threshold' = positive_threshold
       /\ negative_threshold' = negative_threshold
       /\ _pipeline' = _pipeline]_vars

\* C9, amended: after a call in which the classifier failed, nothing is
\* returned, the thresholds are what they were, and a handle cached before
\* the call is still cached; a call that started without a handle ends
\* without one or with the one it built.
C9_FailureLeavesState ==
  [][(last'.op # "none" /\ last'.exc \in ClassifierFailures) =>
       /\ last'.results = <<>>
       /\ positive_threshold' = positive_threshold
       /\ negative_threshold' = negative_threshold
       /\ _pipeline # None => _pipeline' = _pipeline
       /\ _pipeline = None => (_pipeline' = None \/ (last'.built /\ _pipeline'.id = 1))]_vars

\* batch_predict failed in its second chunk, on an analyzer whose handle an
\* earlier call had built: no results, the handle still cached.
C9_Witness ==
  /\ last.op = "batch_predict"
  /\ last.exc = CallFailure
  /\ Len(last.log) = 2
  /\ last.results = <<>>
  /\ ~last.built
  /\ _pipeline # None

\* C8: with several threads calling predict/batch_predict on one analyzer,
\* the handle is built at most once under every interleaving.
C8_BuiltAtMostOnce == builds <= 1

----------------------------------------------------------------------------
(* Which entry is the positive class *)

\* The decision of the three rules with entry i of the call as the positive
\* class and the other of the first two as the negative one.
DecisionWithPositive(i) ==
  Decide(scores[i].score, scores[3 - i].score, positive_threshold, negative_threshold)

\* C13 as claimed: with at least two entries, whichever of the first two has
\* a positive-like label supplies posProb and the other one negProb,
\* whatever their order; later entries do not matter.
C13_Original ==
  TwoEntryCall =>
    \A i \in 1..2 : PositiveLike(scores[i].label) => derived = DecisionWithPositive(i)

\* C13, amended: only the first entry's label is tested.  If it is
\* positive-like the first entry supplies posProb, otherwise the second one
\* does, whatever its label.  So when exactly one of the two labels is
\* positive-like that entry is the positive class in either order; when both
\* are, the first is; when neither is, the second is.  Later entries do not
\* matter.
C13_FirstLabelDecides ==
  TwoEntryCall =>
    /\ PositiveLike(scores[1].label) => derived = DecisionWithPositive(1)
    /\ ~PositiveLike(scores[1].label) => derived = DecisionWithPositive(2)
    /\ \A i \in 1..2 :
         (PositiveLike(scores[i].label) /\ ~PositiveLike(scores[3 - i].label))
           => derived = DecisionWithPositive(i)

\* [(SAD, 0.65), (HAPPY, 0.35), (HAPPY, 1.0)] gives NEGATIVE, 0.65: the
\* second entry is the positive class and the third one is not read.
C13_Witness ==
  /\ derived # NotCalled
  /\ Len(scores) = 3
  /\ scores[1] = [label |-> SAD, score |-> 65]
  /\ scores[2] = [label |-> HAPPY, score |-> 35]
  /\ scores[3] = [label |-> HAPPY, score |-> 100]
  /\ negative_threshold = 65
  /\ derived = Returned(NEGATIVE, 65)

----------------------------------------------------------------------------
(* Latency and chunks *)

\* What the k-th classifier invocation of the last call took, in ms.
CallMs(k) == (last.times.calls[k] * 1000) \div TicksPerSecond

\* What the build made by the last call took, in ms (0 without a build).
BuildMs == IF last.built THEN (last.times.build * 1000) \div TicksPerSecond ELSE 0

\* The fraction f is a / b.
IsRatio(f, a, b) == f.num * b = a * f.den

\* C11: the latency_ms predict returns is the duration of the classifier
\* invocation alone, on every call, the first one of a fresh analyzer
\* included.
C11_LatencyIsCallOnly ==
  (last.op = "predict" /\ last.exc = NoExc) =>
    IsRatio(last.results[1].latency_ms, CallMs(1), 1)

\* What the code measures: the invocation, and before it the build when the
\* call is the one that makes it.  The input check and the decision rule are
\* outside.
LatencyIsBuildAndCall ==
  (last.op = "predict" /\ last.exc = NoExc) =>
    IsRatio(last.results[1].latency_ms, BuildMs + CallMs(1), 1)

CeilDiv(a, b) == (a + b - 1) \div b

\* The chunk the i-th non-blank text falls in, for chunks of size b.
ChunkOf(i, b) == ((i - 1) \div b) + 1

\* C12, for batch_size >= 1: the n non-blank texts go to the classifier in
\* ceil(n / batch_size) invocations, the k-th with the k-th run of at most
\* batch_size consecutive texts (never empty), and each result carries its
\* chunk's invocation time divided by the chunk's length.
C12_ChunksAndLatency ==
  (last.op = "batch_predict" /\ last.exc = NoExc /\ last.batch_size >= 1) =>
    LET clean == NonBlank(last.texts)
        n == Len(clean)
        b == last.batch_size
    IN /\ Len(last.log) = CeilDiv(n, b)
       /\ \A k \in 1..Len(last.log) :
            /\ last.log[k] = SubSeq(clean, (k - 1) * b + 1, IF k * b < n THEN k * b ELSE n)
            /\ Len(last.log[k]) >= 1
            /\ Len(last.log[k]) <= b
       /\ Len(last.results) = n
       /\ \A i \in 1..Len(last.results) :
            IsRatio(last.results[i].latency_ms,
                    CallMs(ChunkOf(i, b)), Len(last.log[ChunkOf(i, b)]))

\* What the code does: as C12, with the build counted in the first chunk's
\* time when the call is the one that makes it.
ChunksAndFirstChunkBuild ==
  (last.op = "batch_predict" /\ last.exc = NoExc /\ last.batch_size >= 1) =>
    LET clean == NonBlank(last.texts)
        n == Len(clean)
        b == last.batch_size
    IN /\ Len(last.log) = CeilDiv(n, b)
       /\ \A k \in 1..Len(last.log) :
            /\ last.log[k] = SubSeq(clean, (k - 1) * b + 1, IF k * b < n THEN k * b ELSE n)
            /\ Len(last.log[k]) >= 1
            /\ Len(last.log[k]) <= b
       /\ Len(last.results) = n
       /\ \A i \in 1..Len(last.results) :
            IsRatio(last.results[i].latency_ms,
                    CallMs(ChunkOf(i, b)) + (IF ChunkOf(i, b) = 1 THEN BuildMs ELSE 0),
                    Len(last.log[ChunkOf(i, b)]))

----------------------------------------------------------------------------
(* batch_predict against predict *)

\* predict on each text of ts in turn, on an analyzer whose handle is cur
\* after n builds and whose model is clf, no call failing: the results.
RECURSIVE PredictEach(_, _, _, _)
PredictEach(ts, cur, n, clf) ==
  IF ts = <<>> THEN <<>>
  ELSE LET r == PredictBody(Head(ts), cur, n, positive_threshold, negative_threshold,
                            TRUE, clf, TRUE,
                            [validate |-> 1, build |-> 1, calls |-> <<1>>, derive |-> 1])
       IN r.results \o PredictEach(Tail(ts), r._pipeline, r.builds, clf)

LabelScores(rs) == [i \in 1..Len(rs) |-> LabelScore(rs[i])]

\* C14: for batch_size >= 1, the (label, score) pairs batch_predict returns
\* are those of predict called on each non-blank text in order, on an
\* analyzer in the state batch_predict started from and with the same model.
C14_BatchAgreesWithPredict ==
  (last.op = "batch_predict" /\ last.exc = NoExc /\ last.batch_size >= 1) =>
    LabelScores(last.results) =
      LabelScores(PredictEach(NonBlank(last.texts),
                              IF last.built THEN None ELSE _pipeline,
                              IF last.built THEN builds - 1 ELSE builds,
                              _pipeline.clf))

\* A first call on a fresh analyzer: two texts and a blank one between them,
\* in two chunks of one, with different decisions, equal to those of predict.
C14_Witness ==
  /\ last.op = "batch_predict"
  /\ last.exc = NoExc
  /\ last.built
  /\ last.batch_size = 1
  /\ Len(last.texts) = 3
  /\ last.texts[2] = <<" ", "\t">>
  /\ Len(last.results) = 2
  /\ LabelScore(last.results[1]) # LabelScore(last.results[2])
  /\ LabelScores(last.results) = LabelScores(PredictEach(NonBlank(last.texts), None, 0, _pipeline.clf))

====
